---- MODULE Spec2Model ----
(***************************************************************************)
(* A model of QXmppMessage (src/base/QXmppMessage.cpp): the message record *)
(* with its setters, QXmppMessage::parse (a DOM element to a record) and   *)
(* QXmppMessage::toXml (a record to markup).                               *)
(*                                                                         *)
(* Markup is modelled as a tree of elements                                *)
(*   [tag, ns, attrs, text, kids, raw]                                     *)
(* where ns is the element's namespaceURI as the XML reader resolves it    *)
(* (the value toXml writes as the xmlns attribute), attrs is a function    *)
(* from attribute names to texts, text is the element's character data,    *)
(* kids is the sequence of its child elements in document order and raw is *)
(* inner markup kept unparsed (the XHTML body).                            *)
(* Enumerations are the integers the C++ enums denote, so that the index   *)
(* tables of the source (chat_states, message_types, ...) are sequences    *)
(* looked up at enum + 1.                                                  *)
(***************************************************************************)
EXTENDS Integers, Sequences, FiniteSets, TLC

VARIABLES msg, element, xml, op, calls, uniqeIdNo, dptr, heap, last, copyCalls

\* the record of the main specifications and what was done to it
mainVars == <<msg, element, xml, op, calls, uniqeIdNo>>

\* the objects and the shared data of the copying specification
copyVars == <<dptr, heap, last, copyCalls>>

vars == <<msg, element, xml, op, calls, uniqeIdNo, dptr, heap, last, copyCalls>>

(***************************************************************************)
(* Bounds of the model.                                                    *)
(***************************************************************************)
\* setter / parse calls made on the record of the main specification
MaxCalls == 2
\* top-level children of a parsed stanza in the decoding specification
MaxKids == 3
\* nesting depth of forwarded stanzas in the forwarding specification
MaxDepth == 3
\* calls made on the objects of the copying specification
MaxCopyCalls == 4

(***************************************************************************)
(* Index tables and enumerations.                                          *)
(***************************************************************************)
chat_states == <<"", "active", "inactive", "gone", "composing", "paused">>
message_types == <<"error", "normal", "chat", "groupchat", "headline">>
marker_types == <<"", "received", "displayed", "acknowledged">>
hint_types == <<"no-permanent-storage", "no-store", "no-copy",
                "allow-permanent-storage">>

\* QXmppMessage::Type
Error == 0
Normal == 1
Chat == 2
GroupChat == 3
Headline == 4
\* QXmppMessage::State
None == 0
Active == 1
Inactive == 2
Gone == 3
Composing == 4
Paused == 5
\* QXmppMessage::Marker
NoMarker == 0
Received == 1
Displayed == 2
Acknowledged == 3
\* QXmppMessage::Hint
NoPermanentStorage == 0
NoStore == 1
NoCopy == 2
AllowPermantStorage == 3
\* StampType
LegacyDelayedDelivery == 0
DelayedDelivery == 1

(***************************************************************************)
(* Namespaces (QXmppConstants).                                            *)
(***************************************************************************)
ns_xhtml == "http://www.w3.org/1999/xhtml"
ns_chat_states == "http://jabber.org/protocol/chatstates"
ns_xhtml_im == "http://jabber.org/protocol/xhtml-im"
ns_message_receipts == "urn:xmpp:receipts"
ns_delayed_delivery == "urn:xmpp:delay"
ns_legacy_delayed_delivery == "jabber:x:delay"
ns_simple_archive == "urn:xmpp:mam:tmp"
ns_message_carbons == "urn:xmpp:carbons:2"
ns_stanza_forwarding == "urn:xmpp:forward:0"
ns_attention == "urn:xmpp:attention:0"
ns_message_processing_hints == "urn:xmpp:hints"
ns_chat_markers == "urn:xmpp:chat-markers:0"
ns_replace_message == "urn:xmpp:message-correct:0"
ns_conference == "jabber:x:conference"
ns_muc_user == "http://jabber.org/protocol/muc#user"

(***************************************************************************)
(* The DOM reader (QDomElement) and the stream writer helpers.             *)
(***************************************************************************)
NoAttrs == <<>>

El(tag, ns, attrs, text, kids) ==
    [tag |-> tag, ns |-> ns, attrs |-> attrs, text |-> text, kids |-> kids,
     raw |-> <<>>]

\* an element whose content was written as raw markup (device()->write)
RawEl(tag, ns, raw) ==
    [tag |-> tag, ns |-> ns, attrs |-> NoAttrs, text |-> "", kids |-> <<>>,
     raw |-> raw]

\* QDomElement(): every accessor of a null element answers empty
NullElement == El("", "", NoAttrs, "", <<>>)

isNull(e) == e.tag = ""

attribute(e, name) == IF name \in DOMAIN e.attrs THEN e.attrs[name] ELSE ""

MinOf(S) == CHOOSE i \in S : \A j \in S : i <= j

\* the first child with that tag name, whatever its namespace
firstChildElement(e, name) ==
    LET idx == {i \in 1..Len(e.kids) : e.kids[i].tag = name}
    IN  IF idx = {} THEN NullElement ELSE e.kids[MinOf(idx)]

\* QXmlStreamWriter::writeAttribute: always written
writeAttribute(attrs, name, value) == (name :> value) @@ attrs

\* helperToXmlAddAttribute: written only when the value is not empty
helperToXmlAddAttribute(attrs, name, value) ==
    IF value = "" THEN attrs ELSE writeAttribute(attrs, name, value)

\* helperToXmlAddTextElement: a text element, or an empty element
helperToXmlAddTextElement(name, value) == El(name, "", NoAttrs, value, <<>>)

(***************************************************************************)
(* Time stamps.  A QDateTime is the null date-time or an instant, counted  *)
(* in milliseconds; the texts are those the two formats give the instants  *)
(* of the model.                                                           *)
(***************************************************************************)
NullDateTime == -1

DateTimes == {1000, 1500, 2000}

isValidDateTime(dt) == dt # NullDateTime

\* QDateTime::isNull
isNullDateTime(dt) == dt = NullDateTime

\* QXmppUtils::datetimeToString: yyyy-MM-ddThh:mm:ss[.zzz]Z
datetimeToString(dt) ==
    CASE dt = 1000 -> "1970-01-01T00:00:01Z"
      [] dt = 1500 -> "1970-01-01T00:00:01.500Z"
      [] dt = 2000 -> "1970-01-01T00:00:02Z"
      [] OTHER -> ""

\* QXmppUtils::datetimeFromString: the null date-time for any other text
datetimeFromString(str) ==
    CASE str = "1970-01-01T00:00:01Z" -> 1000
      [] str = "1970-01-01T00:00:01.500Z" -> 1500
      [] str = "1970-01-01T00:00:02Z" -> 2000
      [] str = "1970-01-01T01:00:01+01:00" -> 1000
      [] OTHER -> NullDateTime

\* QDateTime::toString("yyyyMMddThh:mm:ss"): the milliseconds are not written
legacyToString(dt) ==
    CASE dt = 1000 -> "19700101T00:00:01"
      [] dt = 1500 -> "19700101T00:00:01"
      [] dt = 2000 -> "19700101T00:00:02"
      [] OTHER -> ""

\* QDateTime::fromString(str, "yyyyMMddThh:mm:ss") with setTimeSpec(Qt::UTC)
legacyFromString(str) ==
    CASE str = "19700101T00:00:01" -> 1000
      [] str = "19700101T00:00:02" -> 2000
      [] OTHER -> NullDateTime

(***************************************************************************)
(* XHTML bodies.  d->xhtml is a QString of markup; the model keeps it as   *)
(* the sequence of its tokens (a tag, a run of text, a run of white space) *)
(* so that indexOf, mid, replace and trimmed can be computed.  The markup  *)
(* inside <body xmlns=ns_xhtml> is the raw field of the body element.      *)
(***************************************************************************)
XhtmlTexts == {<<"<p>", "hi", "</p>">>, <<" ", "<p>", "hi", "</p>", " ">>}

BodyOpenTag == "<body xmlns=\"http://www.w3.org/1999/xhtml\">"
BodyEmptyTag == "<body xmlns=\"http://www.w3.org/1999/xhtml\"/>"

\* the tokens that hold a '>'
isTag(tok) ==
    tok \in {"<p>", "</p>", "<body>", "<body/>", "</body>", BodyOpenTag,
             BodyEmptyTag}

isSpace(tok) == tok = " "

\* QDomNode::save of the body element
save(bodyElement) ==
    IF bodyElement.raw = <<>>
    THEN <<BodyEmptyTag>>
    ELSE <<BodyOpenTag>> \o bodyElement.raw \o <<"</body>">>

\* s.mid(s.indexOf('>') + 1); indexOf answers -1 when there is no '>'
midAfterFirstGt(s) ==
    LET idx == {i \in 1..Len(s) : isTag(s[i])}
    IN  IF idx = {} THEN s ELSE SubSeq(s, MinOf(idx) + 1, Len(s))

\* s.replace(" xmlns=\"http://www.w3.org/1999/xhtml\"", "")
removeXmlns(s) ==
    [i \in 1..Len(s) |->
        CASE s[i] = BodyOpenTag -> "<body>"
          [] s[i] = BodyEmptyTag -> "<body/>"
          [] OTHER -> s[i]]

RECURSIVE removeEndBody(_)
\* s.replace("</body>", "")
removeEndBody(s) ==
    IF s = <<>> THEN <<>>
    ELSE IF Head(s) = "</body>" THEN removeEndBody(Tail(s))
    ELSE <<Head(s)>> \o removeEndBody(Tail(s))

\* QString::trimmed
trimmed(s) ==
    LET idx == {i \in 1..Len(s) : ~isSpace(s[i])}
    IN  IF idx = {} THEN <<>>
        ELSE SubSeq(s, MinOf(idx), CHOOSE i \in idx : \A j \in idx : j <= i)

\* Lines 584-590: the text stream appends the saved body element to the text
\* already in d->xhtml, then the text is cut after its first '>', the
\* namespace declaration and "</body>" are removed and the rest is trimmed.
extractXhtml(old, bodyElement) ==
    trimmed(removeEndBody(removeXmlns(midAfterFirstGt(old \o save(bodyElement)))))

(***************************************************************************)
(* The record: the fields of QXmppMessagePrivate, with the id, the error   *)
(* payload and the extension list that the QXmppStanza base keeps.  The    *)
(* three QSharedPointer<QXmppMessage> fields are sequences of length 0     *)
(* (a null pointer) or 1 (the message pointed to).                         *)
(***************************************************************************)
\* QXmppMessage::QXmppMessage with its default arguments
QXmppMessage ==
    [id |-> "", error |-> "", extensions |-> <<>>,
     type |-> Chat, stamp |-> NullDateTime, stampType |-> DelayedDelivery,
     state |-> None, attentionRequested |-> FALSE,
     body |-> "", subject |-> "", thread |-> "", xhtml |-> <<>>,
     receiptId |-> "", receiptRequested |-> FALSE,
     forwarded |-> <<>>, mamMessage |-> <<>>, carbonMessage |-> <<>>,
     mucInvitationJid |-> "", mucInvitationPassword |-> "",
     mucInvitationReason |-> "", mucInvitationDirect |-> TRUE,
     hints |-> <<>>,
     markable |-> FALSE, marker |-> NoMarker, markedId |-> "",
     markedThread |-> "",
     replace |-> FALSE, replaceId |-> ""]

setBody(m, body) == [m EXCEPT !.body = body]
setAttentionRequested(m, requested) == [m EXCEPT !.attentionRequested = requested]

\* QXmppStanza::generateAndSetNextId with the static counter already advanced
generateAndSetNextId(m, n) == [m EXCEPT !.id = "qxmpp" \o ToString(n)]

\* setReceiptRequested without the test that the id is empty
setReceiptRequested_AlwaysNewId(m, requested, n) ==
    LET m1 == [m EXCEPT !.receiptRequested = requested]
    IN  IF requested THEN generateAndSetNextId(m1, n + 1) ELSE m1

\* n is the value of the static id counter before the call
setReceiptRequested(m, requested, n) ==
    LET m1 == [m EXCEPT !.receiptRequested = requested]
    IN  IF requested /\ m1.id = "" THEN generateAndSetNextId(m1, n + 1) ELSE m1

\* the static id counter after setReceiptRequested
nextIdNo(m, requested, n) == IF requested /\ m.id = "" THEN n + 1 ELSE n

setReceiptId(m, id) == [m EXCEPT !.receiptId = id]
setMucInvitationJid(m, jid) == [m EXCEPT !.mucInvitationJid = jid]
setMucInvitationPassword(m, password) == [m EXCEPT !.mucInvitationPassword = password]
setMucInvitationReason(m, reason) == [m EXCEPT !.mucInvitationReason = reason]
setMucInvitationDirect(m, value) == [m EXCEPT !.mucInvitationDirect = value]
setType(m, type) == [m EXCEPT !.type = type]
setStamp(m, stamp) == [m EXCEPT !.stamp = stamp]
setState(m, state) == [m EXCEPT !.state = state]
setSubject(m, subject) == [m EXCEPT !.subject = subject]
setThread(m, thread) == [m EXCEPT !.thread = thread]
setXhtml(m, xhtml) == [m EXCEPT !.xhtml = xhtml]
setForwarded(m, forwarded) == [m EXCEPT !.forwarded = <<forwarded>>]
setMaMMessage(m, message) == [m EXCEPT !.mamMessage = <<message>>]
setMessagecarbon(m, message) == [m EXCEPT !.carbonMessage = <<message>>]
setMarkable(m, markable) == [m EXCEPT !.markable = markable]
setMarkerId(m, markerId) == [m EXCEPT !.markedId = markerId]
setMarkedThread(m, markedThread) == [m EXCEPT !.markedThread = markedThread]
setMarker(m, marker) == [m EXCEPT !.marker = marker]
setMarker3(m, marker, id, thread) ==
    [m EXCEPT !.marker = marker, !.markedId = id, !.markedThread = thread]
setReplace(m, replaceId) == [m EXCEPT !.replace = TRUE, !.replaceId = replaceId]

\* QXmppStanza::setId, setError, setExtensions
setId(m, id) == [m EXCEPT !.id = id]
setError(m, error) == [m EXCEPT !.error = error]
setExtensions(m, extensions) == [m EXCEPT !.extensions = extensions]

hasForwarded(m) == m.forwarded # <<>>
hasMaMMessage(m) == m.mamMessage # <<>>
hasMessageCarbon(m) == m.carbonMessage # <<>>
forwarded(m) == IF m.forwarded = <<>> THEN QXmppMessage ELSE m.forwarded[1]
mamMessage(m) == IF m.mamMessage = <<>> THEN QXmppMessage ELSE m.mamMessage[1]
carbonMessage(m) == IF m.carbonMessage = <<>> THEN QXmppMessage ELSE m.carbonMessage[1]

hasHint(m, hint) == \E i \in 1..Len(m.hints) : m.hints[i] = hint

addHint(m, hint) ==
    IF ~hasHint(m, hint) THEN [m EXCEPT !.hints = Append(@, hint)] ELSE m

\* QList::removeAll
removeHint(m, hint) ==
    IF hasHint(m, hint)
    THEN [m EXCEPT !.hints = SelectSeq(@, LAMBDA h : h # hint)]
    ELSE m

(***************************************************************************)
(* QXmppMessage::parse, block by block in the order of the source.         *)
(***************************************************************************)
RECURSIVE text(_)
RECURSIVE textOfAll(_)
\* QDomElement::text: the character data of the element and its descendants
text(e) == e.text \o textOfAll(e.kids)
textOfAll(kids) ==
    IF kids = <<>> THEN "" ELSE text(Head(kids)) \o textOfAll(Tail(kids))

\* QXmppStanza::parse: the id attribute and the error payload
QXmppStanza_parse(m, elem) ==
    LET errorElement == firstChildElement(elem, "error")
    IN  [m EXCEPT !.id = attribute(elem, "id"),
                  !.error = IF ~isNull(errorElement)
                            THEN text(errorElement) ELSE @]

\* parseType with the loop stopping before Headline
parseType_StopsEarly(elem) ==
    LET type == attribute(elem, "type")
        hits == {i \in Error..(Headline - 1) : type = message_types[i + 1]}
    IN  IF hits = {} THEN Normal ELSE MinOf(hits)

\* lines 554-561
parseType(elem) ==
    LET type == attribute(elem, "type")
        hits == {i \in Error..Headline : type = message_types[i + 1]}
    IN  IF hits = {} THEN Normal ELSE MinOf(hits)

\* lines 567-577: the first state, in the order of the enumeration, whose
\* first element by name carries the chat-state namespace
parseState(m, elem) ==
    LET hits == {i \in Active..Paused :
                    LET stateElement == firstChildElement(elem, chat_states[i + 1])
                    IN  ~isNull(stateElement) /\ stateElement.ns = ns_chat_states}
    IN  IF hits = {} THEN m.state ELSE MinOf(hits)

\* lines 579-592
parseXhtml(m, elem) ==
    LET htmlElement == firstChildElement(elem, "html")
        bodyElement == firstChildElement(htmlElement, "body")
    IN  IF ~isNull(htmlElement) /\ htmlElement.ns = ns_xhtml_im
           /\ ~isNull(bodyElement) /\ bodyElement.ns = ns_xhtml
        THEN extractXhtml(m.xhtml, bodyElement)
        ELSE m.xhtml

\* lines 594-604; m.id is the id QXmppStanza::parse has just read
parseReceiptId(m, elem) ==
    LET receivedElement == firstChildElement(elem, "received")
    IN  IF ~isNull(receivedElement) /\ receivedElement.ns = ns_message_receipts
        THEN IF attribute(receivedElement, "id") = ""
             THEN m.id
             ELSE attribute(receivedElement, "id")
        ELSE ""

\* line 605
parseReceiptRequested(elem) ==
    firstChildElement(elem, "request").ns = ns_message_receipts

\* lines 607-614
parseDelay(m, elem) ==
    LET delayElement == firstChildElement(elem, "delay")
    IN  IF ~isNull(delayElement) /\ delayElement.ns = ns_delayed_delivery
        THEN [m EXCEPT !.stamp = datetimeFromString(attribute(delayElement, "stamp")),
                       !.stampType = DelayedDelivery]
        ELSE m

RECURSIVE parse(_, _)

\* parseForward with the forwarded element itself handed to parse, not its
\* message child
parseForward_WrongElement(elem) ==
    IF ~isNull(elem) /\ elem.ns = ns_stanza_forwarding
    THEN LET fwd == parse(QXmppMessage, elem)
             delayElement == firstChildElement(elem, "delay")
         IN  IF ~isNull(delayElement) /\ delayElement.ns = ns_delayed_delivery
             THEN [fwd EXCEPT
                     !.stamp = datetimeFromString(attribute(delayElement, "stamp")),
                     !.stampType = DelayedDelivery]
             ELSE fwd
    ELSE QXmppMessage

\* lines 750-770
parseForward(elem) ==
    IF ~isNull(elem) /\ elem.ns = ns_stanza_forwarding
    THEN LET msgElement == firstChildElement(elem, "message")
             fwd == parse(QXmppMessage, msgElement)
             delayElement == firstChildElement(elem, "delay")
         IN  IF ~isNull(delayElement) /\ delayElement.ns = ns_delayed_delivery
             THEN [fwd EXCEPT
                     !.stamp = datetimeFromString(attribute(delayElement, "stamp")),
                     !.stampType = DelayedDelivery]
             ELSE fwd
    ELSE QXmppMessage

\* the test shared by lines 620-621, 631-632, 641-642
hasForwardedChild(wrapper) ==
    LET forwardedElement == firstChildElement(wrapper, "forwarded")
    IN  ~isNull(forwardedElement) /\ forwardedElement.ns = ns_stanza_forwarding

\* lines 616-625
parseMam(m, elem) ==
    LET mamElement == firstChildElement(elem, "result")
    IN  IF ~isNull(mamElement) /\ mamElement.ns = ns_simple_archive
           /\ hasForwardedChild(mamElement)
        THEN setMaMMessage(m, parseForward(firstChildElement(mamElement, "forwarded")))
        ELSE m

\* lines 628-636 (name = "received") and 638-646 (name = "sent")
parseCarbon(m, elem, name) ==
    LET carbonElement == firstChildElement(elem, name)
    IN  IF ~isNull(carbonElement) /\ carbonElement.ns = ns_message_carbons
           /\ hasForwardedChild(carbonElement)
        THEN setMessagecarbon(m, parseForward(firstChildElement(carbonElement, "forwarded")))
        ELSE m

\* lines 648-653
parseForwarded(m, elem) ==
    LET forwardedElement == firstChildElement(elem, "forwarded")
    IN  IF ~isNull(forwardedElement) /\ forwardedElement.ns = ns_stanza_forwarding
        THEN setForwarded(m, parseForward(forwardedElement))
        ELSE m

\* line 656
parseAttention(elem) == firstChildElement(elem, "attention").ns = ns_attention

RECURSIVE parseHintsFrom(_, _, _)
\* lines 658-669: the loop from hint i on; each hint found is appended
parseHintsFrom(hints, elem, i) ==
    IF i > AllowPermantStorage THEN hints
    ELSE LET hintElement == firstChildElement(elem, hint_types[i + 1])
         IN  parseHintsFrom(
                 IF ~isNull(hintElement)
                    /\ hintElement.ns = ns_message_processing_hints
                 THEN Append(hints, i) ELSE hints,
                 elem, i + 1)

parseHints(m, elem) == parseHintsFrom(m.hints, elem, NoPermanentStorage)

\* lines 672-676: a markable element of any namespace
parseMarkable(m, elem) ==
    IF ~isNull(firstChildElement(elem, "markable")) THEN TRUE ELSE m.markable

\* lines 678-699: chatStateElement is the element the loop stopped at, or the
\* one of its last round
parseMarker(m, elem) ==
    LET hits == {i \in Received..Acknowledged :
                    LET e == firstChildElement(elem, marker_types[i + 1])
                    IN  ~isNull(e) /\ e.ns = ns_chat_markers}
        marker == IF hits = {} THEN NoMarker ELSE MinOf(hits)
        chatStateElement ==
            firstChildElement(elem,
                marker_types[(IF hits = {} THEN Acknowledged ELSE marker) + 1])
    IN  IF ~isNull(chatStateElement) /\ chatStateElement.ns = ns_chat_markers
        THEN [m EXCEPT !.marker = marker,
                       !.markedId = attribute(chatStateElement, "id"),
                       !.markedThread = attribute(chatStateElement, "thread")]
        ELSE m

\* lines 702-710
parseReplace(m, elem) ==
    LET replaceElement == firstChildElement(elem, "replace")
    IN  IF ~isNull(replaceElement) /\ replaceElement.ns = ns_replace_message
        THEN [m EXCEPT !.replace = TRUE,
                       !.replaceId = attribute(replaceElement, "id")]
        ELSE m

\* lines 397-412: pairs of a tag name and a namespace
knownMessageSubelems ==
    {<<"body", "">>, <<"subject", "">>, <<"thread", "">>, <<"html", "">>,
     <<"received", ns_message_receipts>>, <<"request", "">>, <<"delay", "">>,
     <<"attention", "">>, <<"addresses", "">>}
    \cup {<<chat_states[i + 1], "">> : i \in Active..Paused}

\* lines 740-741: neither the pair of the element nor its name with an empty
\* namespace is in the list
isOtherExtension(xElement) ==
    /\ <<xElement.tag, xElement.ns>> \notin knownMessageSubelems
    /\ <<xElement.tag, "">> \notin knownMessageSubelems

\* QXmppElement(const QDomElement &): the element kept as it was read
QXmppElement(xElement) == xElement

\* lines 718-744: one round of the loop over the children; acc holds the
\* record (m) and the local list (extensions)
parseChild(acc, xElement) ==
    IF xElement.tag = "x"
    THEN IF xElement.ns = ns_legacy_delayed_delivery
         THEN IF isNullDateTime(acc.m.stamp)
              THEN [acc EXCEPT
                      !.m.stamp = legacyFromString(attribute(xElement, "stamp")),
                      !.m.stampType = LegacyDelayedDelivery]
              ELSE acc
         ELSE IF xElement.ns = ns_conference
         THEN [acc EXCEPT
                 !.m.mucInvitationJid = attribute(xElement, "jid"),
                 !.m.mucInvitationPassword = attribute(xElement, "password"),
                 !.m.mucInvitationReason = attribute(xElement, "reason")]
         ELSE [acc EXCEPT !.extensions = Append(@, QXmppElement(xElement))]
    ELSE IF isOtherExtension(xElement)
    THEN [acc EXCEPT !.extensions = Append(@, QXmppElement(xElement))]
    ELSE acc

RECURSIVE parseChildren(_, _)
\* lines 715-746
parseChildren(acc, kids) ==
    IF kids = <<>> THEN acc
    ELSE parseChildren(parseChild(acc, Head(kids)), Tail(kids))

\* lines 550-748
parse(m, elem) ==
    LET m0 == QXmppStanza_parse(m, elem)
        m1 == [m0 EXCEPT !.type = parseType(elem),
                         !.body = text(firstChildElement(elem, "body")),
                         !.subject = text(firstChildElement(elem, "subject")),
                         !.thread = text(firstChildElement(elem, "thread"))]
        m2 == [m1 EXCEPT !.state = parseState(m1, elem),
                         !.xhtml = parseXhtml(m1, elem),
                         !.receiptId = parseReceiptId(m1, elem),
                         !.receiptRequested = parseReceiptRequested(elem)]
        m3 == parseDelay(m2, elem)
        m4 == parseMam(m3, elem)
        m5 == parseCarbon(m4, elem, "received")
        m6 == parseCarbon(m5, elem, "sent")
        m7 == parseForwarded(m6, elem)
        m8 == [m7 EXCEPT !.attentionRequested = parseAttention(elem),
                         !.hints = parseHints(m7, elem),
                         !.markable = parseMarkable(m7, elem)]
        m9 == parseMarker(m8, elem)
        m10 == parseReplace(m9, elem)
        acc == parseChildren([m |-> m10, extensions |-> <<>>], elem.kids)
    IN  setExtensions(acc.m, acc.extensions)

(***************************************************************************)
(* QXmppMessage::toXml.  Each block of the source is an operator that      *)
(* answers the child elements the block writes, in the order written.      *)
(***************************************************************************)
\* an element with a namespace and attributes and no content
emptyElement(tag, ns, attrs) == El(tag, ns, attrs, "", <<>>)

\* lines 775-779
messageAttributes(m) ==
    helperToXmlAddAttribute(
        helperToXmlAddAttribute(NoAttrs, "id", m.id),
        "type", message_types[m.type + 1])

\* lines 780-781
subjectToXml(m) ==
    IF m.subject # "" THEN <<helperToXmlAddTextElement("subject", m.subject)>>
    ELSE <<>>

\* lines 782-783
bodyToXml(m) ==
    IF m.body # "" THEN <<helperToXmlAddTextElement("body", m.body)>> ELSE <<>>

\* lines 784-785
threadToXml(m) ==
    IF m.thread # "" THEN <<helperToXmlAddTextElement("thread", m.thread)>>
    ELSE <<>>

\* line 786, QXmppStanza::Error::toXml: nothing for an unset error
errorToXml(m) ==
    IF m.error # "" THEN <<El("error", "", NoAttrs, m.error, <<>>)>> ELSE <<>>

\* lines 789-794
stateToXml(m) ==
    IF m.state > None /\ m.state <= Paused
    THEN <<emptyElement(chat_states[m.state + 1], ns_chat_states, NoAttrs)>>
    ELSE <<>>

\* lines 797-806
xhtmlToXml(m) ==
    IF m.xhtml # <<>>
    THEN <<El("html", ns_xhtml_im, NoAttrs, "",
              <<RawEl("body", ns_xhtml, m.xhtml)>>)>>
    ELSE <<>>

\* lines 809-826
stampToXml(m) ==
    IF isValidDateTime(m.stamp)
    THEN IF m.stampType = DelayedDelivery
         THEN <<emptyElement("delay", ns_delayed_delivery,
                    helperToXmlAddAttribute(NoAttrs, "stamp",
                                            datetimeToString(m.stamp)))>>
         ELSE <<emptyElement("x", ns_legacy_delayed_delivery,
                    helperToXmlAddAttribute(NoAttrs, "stamp",
                                            legacyToString(m.stamp)))>>
    ELSE <<>>

\* lines 829-839
receiptToXml(m) ==
    (IF m.receiptId # ""
     THEN <<emptyElement("received", ns_message_receipts,
                writeAttribute(NoAttrs, "id", m.receiptId))>>
     ELSE <<>>)
    \o (IF m.receiptRequested
        THEN <<emptyElement("request", ns_message_receipts, NoAttrs)>>
        ELSE <<>>)

\* lines 842-846
attentionToXml(m) ==
    IF m.attentionRequested
    THEN <<emptyElement("attention", ns_attention, NoAttrs)>> ELSE <<>>

\* lines 849-872
mucInvitationToXml(m) ==
    IF m.mucInvitationJid # ""
    THEN IF m.mucInvitationDirect
         THEN <<emptyElement("x", ns_conference,
                    LET a1 == writeAttribute(NoAttrs, "jid", m.mucInvitationJid)
                        a2 == IF m.mucInvitationPassword # ""
                              THEN writeAttribute(a1, "password",
                                                  m.mucInvitationPassword)
                              ELSE a1
                    IN  IF m.mucInvitationReason # ""
                        THEN writeAttribute(a2, "reason", m.mucInvitationReason)
                        ELSE a2)>>
         ELSE <<El("x", ns_muc_user, NoAttrs, "",
                   <<El("invite", "",
                        writeAttribute(NoAttrs, "to", m.mucInvitationJid), "",
                        <<helperToXmlAddTextElement("reason",
                                                    m.mucInvitationReason)>>)>>)>>
    ELSE <<>>

\* lines 875-880
hintsToXml(m) ==
    [i \in 1..Len(m.hints) |->
        emptyElement(hint_types[m.hints[i] + 1], ns_message_processing_hints,
                     NoAttrs)]

\* lines 883-896
markerToXml(m) ==
    (IF m.markable
     THEN <<emptyElement("markable", ns_chat_markers, NoAttrs)>> ELSE <<>>)
    \o (IF m.marker # NoMarker
        THEN <<emptyElement(marker_types[m.marker + 1], ns_chat_markers,
                   LET a1 == writeAttribute(NoAttrs, "id", m.markedId)
                   IN  IF m.markedThread # ""
                       THEN writeAttribute(a1, "thread", m.markedThread)
                       ELSE a1)>>
        ELSE <<>>)

\* replaceToXml without the empty body element
replaceToXml_NoEmptyBody(m) ==
    IF m.replace
    THEN <<emptyElement("replace", ns_replace_message,
               writeAttribute(NoAttrs, "id", m.replaceId))>>
    ELSE <<>>

\* lines 899-909
replaceToXml(m) ==
    IF m.replace
    THEN (IF m.body = "" THEN <<emptyElement("body", "", NoAttrs)>> ELSE <<>>)
         \o <<emptyElement("replace", ns_replace_message,
                  writeAttribute(NoAttrs, "id", m.replaceId))>>
    ELSE <<>>

\* line 912, QXmppStanza::extensionsToXml: every stored element, in order
extensionsToXml(m) == m.extensions

\* knownToXml with the attention block written before the receipt block
knownToXml_AttentionFirst(m) ==
    subjectToXml(m) \o bodyToXml(m) \o threadToXml(m) \o errorToXml(m)
    \o stateToXml(m) \o xhtmlToXml(m) \o stampToXml(m) \o attentionToXml(m)
    \o receiptToXml(m) \o mucInvitationToXml(m) \o hintsToXml(m)
    \o markerToXml(m) \o replaceToXml(m)

\* lines 780-909: the children written before the stored extensions
knownToXml(m) ==
    subjectToXml(m) \o bodyToXml(m) \o threadToXml(m) \o errorToXml(m)
    \o stateToXml(m) \o xhtmlToXml(m) \o stampToXml(m) \o receiptToXml(m)
    \o attentionToXml(m) \o mucInvitationToXml(m) \o hintsToXml(m)
    \o markerToXml(m) \o replaceToXml(m)

\* lines 772-915
toXml(m) ==
    El("message", "", messageAttributes(m), "",
       knownToXml(m) \o extensionsToXml(m))

(***************************************************************************)
(* Inputs of the model.                                                    *)
(***************************************************************************)
Texts == {"", "a"}

\* a message stanza as the reader delivers it
Message(type, id, kids) ==
    El("message", "",
       helperToXmlAddAttribute(helperToXmlAddAttribute(NoAttrs, "id", id),
                               "type", type),
       "", kids)

\* texts of the type attribute: absent, the five names, and two that are none
TypeTexts ==
    {"", "error", "normal", "chat", "groupchat", "headline", "Chat", "bogus"}

\* messages handed to setForwarded, setMaMMessage and setMessagecarbon
NestedMessages ==
    {setBody(QXmppMessage, "in"),
     setForwarded(setBody(QXmppMessage, "in"), setBody(QXmppMessage, "deep"))}

\* a stanza that carries one element of every extension parse reads
FullKids ==
    <<El("subject", "", NoAttrs, "s", <<>>),
      El("body", "", NoAttrs, "b", <<>>),
      El("thread", "", NoAttrs, "t", <<>>),
      emptyElement("composing", ns_chat_states, NoAttrs),
      El("html", ns_xhtml_im, NoAttrs, "",
         <<RawEl("body", ns_xhtml, <<"<p>", "hi", "</p>">>)>>),
      emptyElement("delay", ns_delayed_delivery,
                   "stamp" :> "1970-01-01T00:00:01.500Z"),
      emptyElement("received", ns_message_receipts, "id" :> "r1"),
      emptyElement("request", ns_message_receipts, NoAttrs),
      emptyElement("attention", ns_attention, NoAttrs),
      emptyElement("x", ns_conference,
                   ("jid" :> "room") @@ ("password" :> "pw") @@ ("reason" :> "why")),
      emptyElement("no-store", ns_message_processing_hints, NoAttrs),
      emptyElement("no-copy", ns_message_processing_hints, NoAttrs),
      emptyElement("markable", ns_chat_markers, NoAttrs),
      emptyElement("displayed", ns_chat_markers,
                   ("id" :> "m0") @@ ("thread" :> "t0")),
      emptyElement("replace", ns_replace_message, "id" :> "m0"),
      El("forwarded", ns_stanza_forwarding, NoAttrs, "",
         <<Message("chat", "f1", <<El("body", "", NoAttrs, "in", <<>>)>>)>>)>>

\* the stanzas parsed in the main specification
SpecInputs ==
    {Message(t, "", <<>>) : t \in TypeTexts}
    \cup {Message(t, "m1", FullKids) : t \in {"", "groupchat"}}
    \cup {Message("chat", "m1", k) :
            k \in {<<emptyElement("no-store", ns_message_processing_hints, NoAttrs)>>,
                   <<emptyElement("replace", ns_replace_message, NoAttrs)>>,
                   <<emptyElement("x", ns_legacy_delayed_delivery,
                                  "stamp" :> "19700101T00:00:02")>>,
                   <<emptyElement("foo", "urn:foreign", "k" :> "v")>>}}

(***************************************************************************)
(* Copies.  A QXmppMessage object holds the pointer d to its shared data   *)
(* (QXmppMessagePrivate), and the shared data hold the nested records as   *)
(* QSharedPointer<QXmppMessage>, pointers to QXmppMessage objects.  A      *)
(* store is the objects (dptr: the address each object's d holds, 0 for an *)
(* object not constructed) and the shared data (heap: the data at each     *)
(* address, a nested field holding a pointer or nothing).                  *)
(***************************************************************************)
\* the named objects: the two records of a copy and a message handed in
ObjA == 1
ObjB == 2
ObjM == 3
Named == {ObjA, ObjB, ObjM}

\* a QSharedPointer<QXmppMessage> to the object oid
Ptr(oid) == [oid |-> oid]
IsPtr(x) == "oid" \in DOMAIN x

\* the objects the shared data at an address point to
pointees(store, addr) ==
    {store.heap[addr][f][1].oid :
        f \in {f \in {"forwarded", "mamMessage", "carbonMessage"} :
                  Len(store.heap[addr][f]) > 0}}

RECURSIVE reach(_, _)
\* the objects alive: those of S and the objects their shared data point to
reach(store, S) ==
    LET T == S \cup UNION {pointees(store, store.dptr[o]) : o \in S}
    IN  IF T = S THEN S ELSE reach(store, T)

liveObjects(store) ==
    reach(store, {o \in Named : store.dptr[o] # 0})

\* QSharedData::ref of the data of object o is more than one
isShared(store, o) ==
    \E p \in liveObjects(store) \ {o} : store.dptr[p] = store.dptr[o]

\* QSharedDataPointer::detach, made by every d-> of a member that is not
\* const: shared data are copied member by member (the nested pointers, not
\* their objects) and o is given the copy
detach(store, o) ==
    IF isShared(store, o)
    THEN [heap |-> Append(store.heap, store.heap[store.dptr[o]]),
          dptr |-> [store.dptr EXCEPT ![o] = Len(store.heap) + 1]]
    ELSE store

RECURSIVE newObject(_, _)

\* a nested record that an operator of the record model left as a value in
\* field f becomes an object of its own
internField(acc, f) ==
    IF Len(acc.priv[f]) > 0 /\ ~IsPtr(acc.priv[f][1])
    THEN LET r == newObject(acc.store, acc.priv[f][1])
         IN  [store |-> r.store,
              priv |-> [acc.priv EXCEPT ![f] = <<Ptr(r.oid)>>]]
    ELSE acc

internNested(store, priv) ==
    internField(
        internField(
            internField([store |-> store, priv |-> priv], "forwarded"),
            "mamMessage"),
        "carbonMessage")

\* new QXmppMessage(v) for a temporary v (the record parseForward answers):
\* the object takes over the data of v
newObject(store, v) ==
    LET r == internNested(store, v)
        heap2 == Append(r.store.heap, r.priv)
    IN  [store |-> [heap |-> heap2, dptr |-> Append(r.store.dptr, Len(heap2))],
         oid |-> Len(r.store.dptr) + 1]

\* new QXmppMessage(other) for an object other: the copy constructor, the
\* new object shares the data of other
newCopy(store, other) ==
    [store |-> [heap |-> store.heap,
                dptr |-> Append(store.dptr, store.dptr[other])],
     oid |-> Len(store.dptr) + 1]

\* the data of object o
privOf(store, o) == store.heap[store.dptr[o]]

\* a member of object o that is not const and leaves priv as the data of o
member(store, o, priv) ==
    LET s1 == detach(store, o)
        r == internNested(s1, priv)
    IN  [heap |-> [r.store.heap EXCEPT ![s1.dptr[o]] = r.priv],
         dptr |-> r.store.dptr]

\* setForwarded, setMaMMessage, setMessagecarbon (field f) of object o with
\* the message *d->f = message in place of a new shared pointer, when the
\* field holds a pointer
setNestedOf_InPlace(store, o, f, message) ==
    LET s1 == detach(store, o)
        old == s1.heap[s1.dptr[o]][f]
    IN  IF Len(old) > 0
        THEN [heap |-> s1.heap,
              dptr |-> [s1.dptr EXCEPT ![old[1].oid] = s1.dptr[message]]]
        ELSE LET r == newCopy(s1, message)
             IN  [heap |-> [r.store.heap EXCEPT ![s1.dptr[o]][f] = <<Ptr(r.oid)>>],
                  dptr |-> r.store.dptr]

\* setForwarded, setMaMMessage, setMessagecarbon (field f) of object o with
\* the object message: d->f = QSharedPointer<QXmppMessage>(new
\* QXmppMessage(message))
setNestedOf(store, o, f, message) ==
    LET s1 == detach(store, o)
        r == newCopy(s1, message)
    IN  [heap |-> [r.store.heap EXCEPT ![s1.dptr[o]][f] = <<Ptr(r.oid)>>],
         dptr |-> r.store.dptr]

RECURSIVE valueAt(_, _, _)
\* the record the data at an address stand for, the nested records, as
\* forwarded(), mamMessage() and carbonMessage() answer them, in the place of
\* the pointers (levels levels deep)
valueAt(store, addr, levels) ==
    LET priv == store.heap[addr]
        nested(f) ==
            IF Len(priv[f]) = 0 \/ levels = 0 THEN <<>>
            ELSE <<valueAt(store, store.dptr[priv[f][1].oid], levels - 1)>>
    IN  [priv EXCEPT !.forwarded = nested("forwarded"),
                     !.mamMessage = nested("mamMessage"),
                     !.carbonMessage = nested("carbonMessage")]

\* levels of nested records looked at
MaxLevels == 4

\* the record an object is, or the null element for one not constructed
valueOf(store, o) ==
    IF store.dptr[o] = 0 THEN NullElement
    ELSE valueAt(store, store.dptr[o], MaxLevels)

\* A and M constructed, M with a body; B not constructed yet
InitCopy ==
    /\ dptr = <<1, 0, 2>>
    /\ heap = <<QXmppMessage, setBody(QXmppMessage, "m")>>
    /\ last = [op |-> "construct", on |-> 0]
    /\ copyCalls = 0

(***************************************************************************)
(* The state machine.  msg is the record; op names the kind of the call    *)
(* made last; element is the stanza the record was last parsed from and    *)
(* xml the markup last written from it (each the null element once the     *)
(* record has been modified since); calls counts the modifying calls;      *)
(* uniqeIdNo is the static counter of QXmppStanza::generateAndSetNextId.   *)
(***************************************************************************)
Init ==
    /\ msg = QXmppMessage
    /\ element = NullElement
    /\ xml = NullElement
    /\ op = "construct"
    /\ calls = 0
    /\ uniqeIdNo = 0
    /\ InitCopy

\* a setter call that leaves m as the record
Set(m) ==
    /\ calls < MaxCalls
    /\ msg' = m
    /\ op' = "set"
    /\ calls' = calls + 1
    /\ element' = NullElement
    /\ xml' = NullElement
    /\ UNCHANGED copyVars

SetBody == \E v \in Texts : Set(setBody(msg, v)) /\ UNCHANGED uniqeIdNo
SetSubject == \E v \in Texts : Set(setSubject(msg, v)) /\ UNCHANGED uniqeIdNo
SetThread == \E v \in Texts : Set(setThread(msg, v)) /\ UNCHANGED uniqeIdNo
SetType == \E v \in Error..Headline : Set(setType(msg, v)) /\ UNCHANGED uniqeIdNo
SetState == \E v \in None..Paused : Set(setState(msg, v)) /\ UNCHANGED uniqeIdNo
SetXhtml ==
    \E v \in XhtmlTexts \cup {<<>>} : Set(setXhtml(msg, v)) /\ UNCHANGED uniqeIdNo
SetStamp ==
    \E v \in DateTimes \cup {NullDateTime} :
        Set(setStamp(msg, v)) /\ UNCHANGED uniqeIdNo
SetReceiptId == \E v \in Texts : Set(setReceiptId(msg, v)) /\ UNCHANGED uniqeIdNo
SetReceiptRequested ==
    \E v \in BOOLEAN :
        /\ Set(setReceiptRequested(msg, v, uniqeIdNo))
        /\ uniqeIdNo' = nextIdNo(msg, v, uniqeIdNo)
SetAttentionRequested ==
    \E v \in BOOLEAN : Set(setAttentionRequested(msg, v)) /\ UNCHANGED uniqeIdNo
SetMucInvitationJid ==
    \E v \in Texts : Set(setMucInvitationJid(msg, v)) /\ UNCHANGED uniqeIdNo
SetMucInvitationPassword ==
    \E v \in Texts : Set(setMucInvitationPassword(msg, v)) /\ UNCHANGED uniqeIdNo
SetMucInvitationReason ==
    \E v \in Texts : Set(setMucInvitationReason(msg, v)) /\ UNCHANGED uniqeIdNo
SetMucInvitationDirect ==
    \E v \in BOOLEAN : Set(setMucInvitationDirect(msg, v)) /\ UNCHANGED uniqeIdNo
AddHint ==
    \E v \in NoPermanentStorage..AllowPermantStorage :
        Set(addHint(msg, v)) /\ UNCHANGED uniqeIdNo
RemoveHint ==
    \E v \in NoPermanentStorage..AllowPermantStorage :
        Set(removeHint(msg, v)) /\ UNCHANGED uniqeIdNo
SetMarkable == \E v \in BOOLEAN : Set(setMarkable(msg, v)) /\ UNCHANGED uniqeIdNo
SetMarker ==
    \E v \in NoMarker..Acknowledged : Set(setMarker(msg, v)) /\ UNCHANGED uniqeIdNo
SetMarkerId == \E v \in Texts : Set(setMarkerId(msg, v)) /\ UNCHANGED uniqeIdNo
SetMarkedThread ==
    \E v \in Texts : Set(setMarkedThread(msg, v)) /\ UNCHANGED uniqeIdNo
SetMarker3 ==
    \E v \in NoMarker..Acknowledged, i \in Texts, t \in Texts :
        Set(setMarker3(msg, v, i, t)) /\ UNCHANGED uniqeIdNo
SetReplace == \E v \in Texts : Set(setReplace(msg, v)) /\ UNCHANGED uniqeIdNo
SetForwarded ==
    \E v \in NestedMessages : Set(setForwarded(msg, v)) /\ UNCHANGED uniqeIdNo
SetMaMMessage ==
    \E v \in NestedMessages : Set(setMaMMessage(msg, v)) /\ UNCHANGED uniqeIdNo
SetMessagecarbon ==
    \E v \in NestedMessages : Set(setMessagecarbon(msg, v)) /\ UNCHANGED uniqeIdNo
SetId == \E v \in Texts : Set(setId(msg, v)) /\ UNCHANGED uniqeIdNo
SetError == \E v \in Texts : Set(setError(msg, v)) /\ UNCHANGED uniqeIdNo

\* parse(e) on the record as it stands
ParseInto(e) ==
    /\ calls < MaxCalls
    /\ msg' = parse(msg, e)
    /\ element' = e
    /\ op' = "parse"
    /\ calls' = calls + 1
    /\ xml' = NullElement
    /\ UNCHANGED <<uniqeIdNo, copyVars>>

Parse == \E e \in SpecInputs : ParseInto(e)

\* toXml is const: the record stays, the markup is what the writer received
ToXml ==
    /\ op # "toXml"
    /\ xml' = toXml(msg)
    /\ op' = "toXml"
    /\ UNCHANGED <<msg, element, calls, uniqeIdNo, copyVars>>

Next ==
    \/ SetBody \/ SetSubject \/ SetThread \/ SetType \/ SetState \/ SetXhtml
    \/ SetStamp \/ SetReceiptId \/ SetReceiptRequested \/ SetAttentionRequested
    \/ SetMucInvitationJid \/ SetMucInvitationPassword \/ SetMucInvitationReason
    \/ SetMucInvitationDirect \/ AddHint \/ RemoveHint \/ SetMarkable
    \/ SetMarker \/ SetMarkerId \/ SetMarkedThread \/ SetMarker3 \/ SetReplace
    \/ SetForwarded \/ SetMaMMessage \/ SetMessagecarbon \/ SetId \/ SetError
    \/ Parse \/ ToXml

Spec == Init /\ [][Next]_vars

(***************************************************************************)
(* The decoding specification: one stanza, whose top-level children are    *)
(* drawn from DecodePool, is parsed into a freshly constructed record and  *)
(* the record is written back.                                             *)
(***************************************************************************)
ns_foreign == "urn:foreign"

\* a forwarded wrapper around one message
Forwarded(message) == El("forwarded", ns_stanza_forwarding, NoAttrs, "", <<message>>)

DecodePool ==
    {El("foo", ns_foreign, "k" :> "v", "payload", <<>>),
     emptyElement("x", ns_foreign, NoAttrs),
     emptyElement("attention", ns_foreign, NoAttrs),
     emptyElement("active", ns_foreign, NoAttrs),
     emptyElement("received", ns_foreign, NoAttrs),
     emptyElement("received", ns_message_receipts, "id" :> "r1"),
     El("received", ns_message_carbons, NoAttrs, "",
        <<Forwarded(Message("chat", "c1", <<El("body", "", NoAttrs, "cc", <<>>)>>))>>),
     emptyElement("delay", ns_delayed_delivery, "stamp" :> "1970-01-01T00:00:01Z"),
     emptyElement("delay", ns_delayed_delivery, "stamp" :> "garbage"),
     emptyElement("x", ns_legacy_delayed_delivery, "stamp" :> "19700101T00:00:02"),
     El("body", "", NoAttrs, "b", <<>>),
     emptyElement("attention", ns_attention, NoAttrs),
     emptyElement("no-store", ns_message_processing_hints, NoAttrs),
     emptyElement("x", ns_conference, "jid" :> "room")}

\* the children of a stanza: of MaxKids places, those that hold an element
KidsOf(places) == SelectSeq(places, LAMBDA e : ~isNull(e))

\* the stanzas with at most MaxKids children out of DecodePool
Decode ==
    /\ op = "construct"
    /\ \E places \in [1..MaxKids -> DecodePool \cup {NullElement}] :
          ParseInto(Message("chat", "m1", KidsOf(places)))

NextDecode == Decode \/ ToXml

SpecDecode == Init /\ [][NextDecode]_vars

(***************************************************************************)
(* The forwarding specification: stanzas that nest a message inside a      *)
(* wrapper, level after level, each level with a body of its own.          *)
(***************************************************************************)
Wrappers == {"forwarded", "delayed", "result", "received", "sent"}

\* the element that carries message as a nested stanza
Wrap(w, message) ==
    CASE w = "forwarded" -> Forwarded(message)
      [] w = "delayed" ->
            El("forwarded", ns_stanza_forwarding, NoAttrs, "",
               <<emptyElement("delay", ns_delayed_delivery,
                              "stamp" :> "1970-01-01T00:00:02Z"),
                 message>>)
      [] w = "result" ->
            El("result", ns_simple_archive, NoAttrs, "", <<Forwarded(message)>>)
      [] w = "received" ->
            El("received", ns_message_carbons, NoAttrs, "", <<Forwarded(message)>>)
      [] w = "sent" ->
            El("sent", ns_message_carbons, NoAttrs, "", <<Forwarded(message)>>)

RECURSIVE Nested(_, _, _, _)
\* the stanza of level i that nests the messages of the levels i + 1 .. d,
\* the message of level j with the body bodies[j] and in the wrapper
\* wrappers[j]
Nested(i, d, bodies, wrappers) ==
    Message("chat", "",
        <<El("body", "", NoAttrs, bodies[i], <<>>)>>
        \o (IF i < d
            THEN <<Wrap(wrappers[i + 1], Nested(i + 1, d, bodies, wrappers))>>
            ELSE <<>>))

\* the stanzas that nest at most MaxDepth messages
DecodeNested ==
    /\ op = "construct"
    /\ \E d \in 0..MaxDepth, bodies \in [0..MaxDepth -> {"p", "q"}],
          wrappers \in [1..MaxDepth -> Wrappers] :
          ParseInto(Nested(0, d, bodies, wrappers))

NextForward == DecodeNested \/ ToXml

SpecForward == Init /\ [][NextForward]_vars

(***************************************************************************)
(* The copying specification: record B is made from record A (or A from    *)
(* B) by the copy constructor or by assignment, and setters and parse are  *)
(* called on the objects.                                                  *)
(***************************************************************************)
Store == [heap |-> heap, dptr |-> dptr]

\* a call of the member op on object o that leaves the store s
Call(name, o, s) ==
    /\ copyCalls < MaxCopyCalls
    /\ dptr' = s.dptr
    /\ heap' = s.heap
    /\ last' = [op |-> name, on |-> o]
    /\ copyCalls' = copyCalls + 1
    /\ UNCHANGED mainVars

\* QXmppMessage(const QXmppMessage &other): d(other.d)
CopyConstruct ==
    \E o \in {ObjA, ObjB}, other \in {ObjA, ObjB} :
        /\ dptr[o] = 0 /\ dptr[other] # 0
        /\ Call("copy", o, [heap |-> heap, dptr |-> [dptr EXCEPT ![o] = dptr[other]]])

\* operator=(const QXmppMessage &other): d = other.d
Assign ==
    \E o \in {ObjA, ObjB} : \E other \in Named \ {o} :
        /\ dptr[o] # 0 /\ dptr[other] # 0
        /\ Call("assign", o, [heap |-> heap, dptr |-> [dptr EXCEPT ![o] = dptr[other]]])

SetBodyOf ==
    \E o \in Named, v \in Texts :
        /\ dptr[o] # 0
        /\ Call("setBody", o, member(Store, o, setBody(privOf(Store, o), v)))

SetForwardedOf ==
    \E o \in {ObjA, ObjB} : \E message \in Named \ {o} :
        /\ dptr[o] # 0 /\ dptr[message] # 0
        /\ Call("setForwarded", o, setNestedOf(Store, o, "forwarded", message))

SetMaMMessageOf ==
    \E o \in {ObjA, ObjB} : \E message \in Named \ {o} :
        /\ dptr[o] # 0 /\ dptr[message] # 0
        /\ Call("setMaMMessage", o, setNestedOf(Store, o, "mamMessage", message))

SetMessagecarbonOf ==
    \E o \in {ObjA, ObjB} : \E message \in Named \ {o} :
        /\ dptr[o] # 0 /\ dptr[message] # 0
        /\ Call("setMessagecarbon", o,
                setNestedOf(Store, o, "carbonMessage", message))

\* stanzas parsed in the copying specification
CopyInputs ==
    {Message("normal", "", <<>>),
     Message("chat", "m1",
        <<El("body", "", NoAttrs, "b", <<>>),
          Forwarded(Message("chat", "f1", <<El("body", "", NoAttrs, "ff", <<>>)>>))>>)}

ParseOf ==
    \E o \in {ObjA, ObjB}, e \in CopyInputs :
        /\ dptr[o] # 0
        /\ Call("parse", o, member(Store, o, parse(privOf(Store, o), e)))

NextCopy ==
    \/ CopyConstruct \/ Assign \/ SetBodyOf \/ SetForwardedOf
    \/ SetMaMMessageOf \/ SetMessagecarbonOf \/ ParseOf

SpecCopy == Init /\ [][NextCopy]_vars

(***************************************************************************)
(* Properties.                                                             *)
(***************************************************************************)
RECURSIVE KnownFields(_)
\* the fields of a record that the extensions toXml and parse know, with the
\* nested records taken the same way
KnownFields(m) ==
    [type |-> m.type, body |-> m.body, subject |-> m.subject,
     thread |-> m.thread, state |-> m.state, xhtml |-> m.xhtml,
     receiptId |-> m.receiptId, receiptRequested |-> m.receiptRequested,
     attentionRequested |-> m.attentionRequested,
     stamp |-> m.stamp,
     stampType |-> IF isValidDateTime(m.stamp) THEN m.stampType
                   ELSE DelayedDelivery,
     mucInvitationJid |-> m.mucInvitationJid,
     mucInvitationPassword |-> m.mucInvitationPassword,
     mucInvitationReason |-> m.mucInvitationReason,
     mucInvitationDirect |-> m.mucInvitationDirect,
     hints |-> m.hints, markable |-> m.markable, marker |-> m.marker,
     markedId |-> m.markedId, markedThread |-> m.markedThread,
     replace |-> m.replace, replaceId |-> m.replaceId,
     forwarded |-> IF hasForwarded(m) THEN <<KnownFields(m.forwarded[1])>>
                   ELSE <<>>,
     mamMessage |-> IF hasMaMMessage(m) THEN <<KnownFields(m.mamMessage[1])>>
                    ELSE <<>>,
     carbonMessage |-> IF hasMessageCarbon(m)
                       THEN <<KnownFields(m.carbonMessage[1])>> ELSE <<>>]

RECURSIVE FullySpecified(_)
\* a record the setters build from fully specified values: no unknown
\* extension, no hint twice, the marker id and thread only with a marker,
\* the invitation password, reason and form only with an invitation jid, an
\* XHTML body without surrounding white space, a legacy stamp of whole
\* seconds, and nested records of the same kind
FullySpecified(m) ==
    /\ m.extensions = <<>>
    /\ \A i, j \in 1..Len(m.hints) : m.hints[i] = m.hints[j] => i = j
    /\ m.marker = NoMarker => m.markedId = "" /\ m.markedThread = ""
    /\ m.mucInvitationJid = "" =>
          /\ m.mucInvitationPassword = ""
          /\ m.mucInvitationReason = ""
          /\ m.mucInvitationDirect
    /\ m.xhtml = trimmed(m.xhtml)
    /\ m.stampType = LegacyDelayedDelivery => m.stamp # 1500
    /\ hasForwarded(m) => FullySpecified(m.forwarded[1])
    /\ hasMaMMessage(m) => FullySpecified(m.mamMessage[1])
    /\ hasMessageCarbon(m) => FullySpecified(m.carbonMessage[1])

\* C1: whenever toXml has written a fully specified record, parsing the
\* markup into a fresh record gives back every known field of the record,
\* the forwarded, archived and carbon-copied records included.
C1_RoundTrip ==
    (op = "toXml" /\ FullySpecified(msg))
        => KnownFields(parse(QXmppMessage, xml)) = KnownFields(msg)

\* the pairs of a name and a namespace that some known extension owns; body,
\* subject, thread and addresses are owned in any namespace
IsKnownExtension(e) ==
    \/ e.tag \in {"body", "subject", "thread", "addresses", "error"}
    \/ /\ e.ns = ns_chat_states
       /\ \E i \in Active..Paused : e.tag = chat_states[i + 1]
    \/ e.tag = "html" /\ e.ns = ns_xhtml_im
    \/ e.tag \in {"received", "request"} /\ e.ns = ns_message_receipts
    \/ e.tag = "delay" /\ e.ns = ns_delayed_delivery
    \/ e.tag = "x" /\ e.ns \in {ns_legacy_delayed_delivery, ns_conference}
    \/ e.tag = "attention" /\ e.ns = ns_attention
    \/ /\ e.ns = ns_message_processing_hints
       /\ \E i \in NoPermanentStorage..AllowPermantStorage : e.tag = hint_types[i + 1]
    \/ /\ e.ns = ns_chat_markers
       /\ \/ e.tag = "markable"
          \/ \E i \in Received..Acknowledged : e.tag = marker_types[i + 1]
    \/ e.tag = "replace" /\ e.ns = ns_replace_message
    \/ e.tag = "result" /\ e.ns = ns_simple_archive
    \/ e.tag \in {"received", "sent"} /\ e.ns = ns_message_carbons
    \/ e.tag = "forwarded" /\ e.ns = ns_stanza_forwarding

IsForeign(e) == ~IsKnownExtension(e)

\* C2: after parse and toXml, the foreign children of the written markup are
\* the foreign children of the parsed stanza: each once, in their order.
C2_ForeignPreserved ==
    (op = "toXml" /\ ~isNull(element))
        => SelectSeq(xml.kids, IsForeign) = SelectSeq(element.kids, IsForeign)

IsReceiptReceived(e) == e.tag = "received" /\ e.ns = ns_message_receipts

IsCarbonReceived(e) ==
    e.tag = "received" /\ e.ns = ns_message_carbons /\ hasForwardedChild(e)

IsCarbonSent(e) ==
    e.tag = "sent" /\ e.ns = ns_message_carbons /\ hasForwardedChild(e)

HasKid(e, P(_)) == \E i \in 1..Len(e.kids) : P(e.kids[i])

\* C3: after parse into a fresh record, receiptId is set exactly when the
\* stanza holds a receipts 'received' (here with an id), and the carbon copy
\* is set exactly when it holds a carbons 'received' or 'sent' wrapping a
\* forwarded element; so with both 'received' elements both are set.
C3_ReceivedByNamespace ==
    (op = "parse" /\ calls = 1) =>
        /\ HasKid(element, IsReceiptReceived) <=> msg.receiptId # ""
        /\ (HasKid(element, IsCarbonReceived) \/ HasKid(element, IsCarbonSent))
              <=> hasMessageCarbon(msg)

IsStandardDelay(e) == e.tag = "delay" /\ e.ns = ns_delayed_delivery

IsLegacyDelay(e) == e.tag = "x" /\ e.ns = ns_legacy_delayed_delivery

\* C4: after parse into a fresh record of a stanza with a standard delay
\* element and a legacy one, the stamp kind is standard and the stamp is the
\* one read from the (first) standard element.
C4_StandardWins ==
    (/\ op = "parse" /\ calls = 1
     /\ HasKid(element, IsStandardDelay) /\ HasKid(element, IsLegacyDelay)) =>
        /\ msg.stampType = DelayedDelivery
        /\ msg.stamp = datetimeFromString(
               attribute(SelectSeq(element.kids, IsStandardDelay)[1], "stamp"))

\* the elements that carry a nested stanza
IsWrapper(e) ==
    \/ e.tag = "forwarded" /\ e.ns = ns_stanza_forwarding
    \/ e.tag = "result" /\ e.ns = ns_simple_archive
    \/ e.tag \in {"received", "sent"} /\ e.ns = ns_message_carbons

\* the forwarded element of a wrapper, and the message it carries
ForwardedOf(w) ==
    IF w.tag = "forwarded" THEN w ELSE firstChildElement(w, "forwarded")

InnerMessage(w) == firstChildElement(ForwardedOf(w), "message")

\* the field that holds the record of the stanza a wrapper carries
NestedOf(m, w) ==
    CASE w.tag = "forwarded" -> m.forwarded
      [] w.tag = "result" -> m.mamMessage
      [] OTHER -> m.carbonMessage

RECURSIVE Linked(_, _)
\* m mirrors the stanza e level by level: the body of each level is that
\* level's, a level without a wrapper has no nested record, and a level with
\* one has its record in the wrapper's field (and in no other), stamped by
\* the wrapper's delay element when there is one
Linked(m, e) ==
    /\ m.body = text(firstChildElement(e, "body"))
    /\ LET ws == SelectSeq(e.kids, IsWrapper)
       IN  IF ws = <<>>
           THEN ~hasForwarded(m) /\ ~hasMaMMessage(m) /\ ~hasMessageCarbon(m)
           ELSE /\ Len(ws) = 1
                /\ Len(NestedOf(m, ws[1])) = 1
                /\ Len(m.forwarded) + Len(m.mamMessage) + Len(m.carbonMessage) = 1
                /\ Linked(NestedOf(m, ws[1])[1], InnerMessage(ws[1]))
                /\ ~isNull(firstChildElement(ForwardedOf(ws[1]), "delay"))
                      => NestedOf(m, ws[1])[1].stamp = 2000

RECURSIVE SameNesting(_, _)
\* the markup x nests the same bodies in the same wrappers as the stanza e
SameNesting(x, e) ==
    /\ text(firstChildElement(x, "body")) = text(firstChildElement(e, "body"))
    /\ LET wx == SelectSeq(x.kids, IsWrapper)
           we == SelectSeq(e.kids, IsWrapper)
       IN  /\ Len(wx) = Len(we)
           /\ we # <<>> =>
                /\ wx[1].tag = we[1].tag
                /\ wx[1].ns = we[1].ns
                /\ ~isNull(InnerMessage(wx[1]))
                /\ SameNesting(InnerMessage(wx[1]), InnerMessage(we[1]))

\* C5: a stanza that nests forwarded messages (three levels deep, or any
\* depth up to MaxDepth) is parsed into records linked level by level, and
\* toXml of the outer record writes the same nesting, each nested stanza in
\* its wrapper, so that parsing the markup gives the same linked records.
C5_RecursiveForwarding ==
    /\ (op \in {"parse", "toXml"} /\ ~isNull(element)) => Linked(msg, element)
    /\ (op = "toXml" /\ ~isNull(element)) =>
          /\ SameNesting(xml, element)
          /\ Linked(parse(QXmppMessage, xml), element)

\* three levels have been parsed and written back
C5_Witness ==
    /\ op = "toXml"
    /\ hasForwarded(msg)
    /\ hasForwarded(forwarded(msg))
    /\ hasForwarded(forwarded(forwarded(msg)))
    /\ forwarded(forwarded(forwarded(msg))).body = "q"
    /\ forwarded(forwarded(msg)).body = "p"
    /\ SameNesting(xml, element)

\* the place of an element in the canonical order (0: no place); an empty
\* body has the place emptyBodySlot
SlotOf(e, emptyBodySlot) ==
    CASE e.tag = "subject" -> 1
      [] e.tag = "body" -> IF text(e) = "" THEN emptyBodySlot ELSE 2
      [] e.tag = "thread" -> 3
      [] e.tag = "error" -> 4
      [] e.ns = ns_chat_states
         /\ (\E i \in Active..Paused : e.tag = chat_states[i + 1]) -> 5
      [] e.tag = "html" /\ e.ns = ns_xhtml_im -> 6
      [] e.tag = "delay" /\ e.ns = ns_delayed_delivery -> 7
      [] e.tag = "x" /\ e.ns = ns_legacy_delayed_delivery -> 7
      [] e.tag = "received" /\ e.ns = ns_message_receipts -> 8
      [] e.tag = "request" /\ e.ns = ns_message_receipts -> 9
      [] e.tag = "attention" /\ e.ns = ns_attention -> 10
      [] e.tag = "x" /\ e.ns \in {ns_conference, ns_muc_user} -> 11
      [] e.ns = ns_message_processing_hints
         /\ (\E i \in NoPermanentStorage..AllowPermantStorage :
                e.tag = hint_types[i + 1]) -> 12
      [] e.tag = "markable" /\ e.ns = ns_chat_markers -> 13
      [] e.ns = ns_chat_markers
         /\ (\E i \in Received..Acknowledged : e.tag = marker_types[i + 1]) -> 14
      [] e.tag = "replace" /\ e.ns = ns_replace_message -> 16
      [] OTHER -> 0

\* the children toXml wrote before the stored extensions
WrittenKnown == SubSeq(xml.kids, 1, Len(xml.kids) - Len(msg.extensions))

\* the written children are elements of the canonical order, in that order,
\* no place taken twice but that of the hints, which are written as the
\* hint list holds them; the stored extensions follow, as stored
InCanonicalOrder(emptyBodySlot) ==
    /\ Len(xml.kids) >= Len(msg.extensions)
    /\ SubSeq(xml.kids, Len(WrittenKnown) + 1, Len(xml.kids)) = msg.extensions
    /\ \A i \in 1..Len(WrittenKnown) : SlotOf(WrittenKnown[i], emptyBodySlot) # 0
    /\ \A i, j \in 1..Len(WrittenKnown) :
          i < j =>
             \/ SlotOf(WrittenKnown[i], emptyBodySlot)
                   < SlotOf(WrittenKnown[j], emptyBodySlot)
             \/ /\ SlotOf(WrittenKnown[i], emptyBodySlot) = 12
                /\ SlotOf(WrittenKnown[j], emptyBodySlot) = 12
    /\ LET hs == SelectSeq(WrittenKnown, LAMBDA e : SlotOf(e, emptyBodySlot) = 12)
       IN  /\ Len(hs) = Len(msg.hints)
           /\ \A i \in 1..Len(hs) : hs[i].tag = hint_types[msg.hints[i] + 1]
    /\ Len(SelectSeq(WrittenKnown, LAMBDA e : e.tag = "body")) <= 1

\* no two written children, hints aside, have the same name
NoNameTwice ==
    \A i, j \in 1..Len(WrittenKnown) :
        (i < j /\ WrittenKnown[i].tag = WrittenKnown[j].tag)
            => WrittenKnown[i].ns = ns_message_processing_hints

\* C6 as stated: the empty body of a correction is written at the place of
\* the body (2), between subject and thread, and no name is written twice.
C6_OrderAsStated == op = "toXml" => InCanonicalOrder(2) /\ NoNameTwice

\* C6 amended: the children toXml writes from the fields of the record follow
\* the canonical order, except that the empty body of a correction with an
\* empty body is written right before 'replace', after the marker element
\* (place 15); no place is taken twice but that of the hints (two places may
\* share a name, as the legacy stamp and the invitation share 'x'); the
\* stored extensions follow in stored order.
C6_CanonicalOrder == op = "toXml" => InCanonicalOrder(15)

\* a correction with an empty body and a marker has been written
C6_Witness ==
    /\ op = "toXml"
    /\ msg.replace /\ msg.body = "" /\ msg.marker = Displayed
    /\ Len(WrittenKnown) = 3

\* the top-level body elements of the written markup
WrittenBodies == SelectSeq(xml.kids, LAMBDA e : e.tag = "body")

\* C7: toXml of a correction writes exactly one body element, with the text
\* of the body (an empty element for an empty body), and parsing the markup
\* into a fresh record gives that body, isReplace and the same replaceId.
C7_EmptyBodyCorrection ==
    (op = "toXml" /\ msg.replace) =>
        /\ Len(WrittenBodies) = 1
        /\ text(WrittenBodies[1]) = msg.body
        /\ LET decoded == parse(QXmppMessage, xml)
           IN  /\ decoded.body = msg.body
               /\ decoded.replace
               /\ decoded.replaceId = msg.replaceId

\* a correction with an empty body has been written
C7_Witness ==
    /\ op = "toXml"
    /\ msg.replace /\ msg.body = "" /\ msg.replaceId = "a"
    /\ Len(WrittenBodies) = 1

\* C8: a setReceiptRequested call never changes an id that is not empty;
\* on an empty id it assigns an id that is not empty when the flag is set
\* and leaves the id empty when the flag is cleared.
C8_DefaultId ==
    [][SetReceiptRequested =>
          /\ msg.id # "" => msg'.id = msg.id
          /\ (msg.id = "" /\ msg'.receiptRequested) => msg'.id # ""
          /\ (msg.id = "" /\ ~msg'.receiptRequested) => msg'.id = ""]_vars

\* the id assigned by a first call has survived a second call
C8_Witness ==
    /\ op = "set" /\ calls = 2
    /\ uniqeIdNo = 1 /\ msg.id = "qxmpp1"
    /\ ~msg.receiptRequested

\* the kind a text of the type attribute names
KindNamed(str) ==
    CASE str = "error" -> Error
      [] str = "normal" -> Normal
      [] str = "chat" -> Chat
      [] str = "groupchat" -> GroupChat
      [] str = "headline" -> Headline
      [] OTHER -> Normal

\* C9: a constructed record is of kind chat, and after parse the kind is the
\* one the type attribute names, normal when it names none or is absent.
C9_KindDefaults ==
    /\ op = "construct" => msg.type = Chat
    /\ (op = "parse" \/ (op = "toXml" /\ ~isNull(element)))
          => msg.type = KindNamed(attribute(element, "type"))

\* a stanza of kind headline has been parsed
C9_Witness ==
    /\ op = "parse" /\ calls = 2
    /\ attribute(element, "type") = "headline" /\ msg.type = Headline

\* the extension fields of a record
ExtensionFields(m) ==
    [state |-> m.state, xhtml |-> m.xhtml, stamp |-> m.stamp,
     receiptId |-> m.receiptId, receiptRequested |-> m.receiptRequested,
     attentionRequested |-> m.attentionRequested, hints |-> m.hints,
     markable |-> m.markable, marker |-> m.marker, markedId |-> m.markedId,
     markedThread |-> m.markedThread, replace |-> m.replace,
     mucInvitationJid |-> m.mucInvitationJid,
     mucInvitationPassword |-> m.mucInvitationPassword,
     mucInvitationReason |-> m.mucInvitationReason,
     hasForwarded |-> hasForwarded(m), hasMaMMessage |-> hasMaMMessage(m),
     hasMessageCarbon |-> hasMessageCarbon(m)]

\* C10: after parse on a record in any state, the extension fields are those
\* of parsing the same stanza into a freshly constructed record.
C10_ParseIgnoresPriorState ==
    op = "parse"
        => ExtensionFields(msg) = ExtensionFields(parse(QXmppMessage, element))

\* C11: after parse into a fresh record the stored extensions are, in the
\* order of the document, the top-level children that no known extension
\* claims, and toXml of the record writes no element of a known extension
\* twice.
C11_ExactCapture ==
    (op \in {"parse", "toXml"} /\ calls = 1 /\ ~isNull(element)) =>
        /\ msg.extensions = SelectSeq(element.kids, IsForeign)
        /\ op = "toXml" =>
              \A i, j \in 1..Len(xml.kids) :
                  (i < j /\ IsKnownExtension(xml.kids[i]))
                      => xml.kids[i] # xml.kids[j]

\* C12: in every state reached by addHint, removeHint and parse no hint is
\* twice in the hint list, so toXml writes at most one element per hint.
C12_NoDuplicateHints ==
    /\ \A i, j \in 1..Len(msg.hints) : msg.hints[i] = msg.hints[j] => i = j
    /\ op = "toXml" =>
          \A h \in NoPermanentStorage..AllowPermantStorage :
              Len(SelectSeq(WrittenKnown,
                      LAMBDA e : /\ e.ns = ns_message_processing_hints
                                 /\ e.tag = hint_types[h + 1])) <= 1

\* C13: in every state a record that is a correction names the message it
\* corrects: isReplace implies a replaceId that is not empty.
C13_CorrectionHasTarget == msg.replace => msg.replaceId # ""

\* C14: a call on one object leaves every other named object the record it
\* was, the forwarded, archived and carbon-copied records in it included:
\* neither a copy nor the message handed to setForwarded is changed through
\* the other.
C14_NoAliasing ==
    [][\A o \in Named :
          o # last'.on => valueOf(Store, o)' = valueOf(Store, o)]_vars

\* B was made from A, which held an archived record, and was then given a
\* forwarded record: the data of A and B are two, and both point to the one
\* archived object
C14_Witness ==
    /\ last = [op |-> "setForwarded", on |-> ObjB]
    /\ dptr[ObjA] # 0 /\ dptr[ObjB] # 0 /\ dptr[ObjA] # dptr[ObjB]
    /\ Len(heap[dptr[ObjA]].mamMessage) = 1
    /\ heap[dptr[ObjA]].mamMessage = heap[dptr[ObjB]].mamMessage
    /\ Len(heap[dptr[ObjA]].forwarded) = 0
    /\ Len(heap[dptr[ObjB]].forwarded) = 1

====
